---------------------------- MODULE Spec2Model ----------------------------
(***************************************************************************)
(* Model of the workflow copilot of src/webapp/src/app/page.tsx: the       *)
(* command interpreter computeAssistant and its caller sendMessage.        *)
(*                                                                         *)
(* Texts are sequences of one-character strings, so that trim,             *)
(* toLowerCase, includes, startsWith and the note regular expressions are  *)
(* computed on the characters as the code computes them.  A value that may *)
(* be null or undefined is a sequence of length 0 (None) or 1 (Some(x)).   *)
(* A reply's content is the name of the template the code fills in.        *)
(* Message ids (createId) are random and are left out.                     *)
(***************************************************************************)
EXTENDS Integers, Sequences, FiniteSets

VARIABLES
    activeRun,      \* useState<ActiveRun | null>
    runHistory,     \* useState<RunRecord[]>
    quickActions,   \* useState<string[]>
    messageCount,   \* length of useState<Message[]>
    clock,          \* the time read by new Date(); one tick per command
    input,          \* the text of the last command handed to computeAssistant
    prevRun,        \* the activeRun that command was computed against
    result,         \* what computeAssistant returned for it
    streak,         \* how many commands in a row ran the intent of the last one
    closedRuns      \* how many completedRun records computeAssistant has returned

vars == <<activeRun, runHistory, quickActions, messageCount, clock, input, prevRun, result, streak, closedRuns>>

-----------------------------------------------------------------------------
(* Bounds *)

\* number of commands sent in one behaviour (and so the largest clock value)
MaxClock == 5

\* the longest list of notes a run is let to collect
MaxNotes == 2

\* number of commands sent in one behaviour of the run-history specification
MaxHistoryClock == 7

-----------------------------------------------------------------------------
(* null | T *)

None == <<>>

Some(x) == <<x>>

-----------------------------------------------------------------------------
(* String primitives of the JavaScript runtime, on character sequences *)

UpperCase == <<"A","B","C","D","E","F","G","H","I","J","K","L","M","N","O","P","Q","R","S","T","U","V","W","X","Y","Z">>

LowerCase == <<"a","b","c","d","e","f","g","h","i","j","k","l","m","n","o","p","q","r","s","t","u","v","w","x","y","z">>

\* \s of a regular expression and the white space String.prototype.trim strips
isSpace(c) == c \in {" ", "\t"}

toLowerChar(c) ==
    IF \E i \in 1..26 : UpperCase[i] = c
    THEN LowerCase[CHOOSE i \in 1..26 : UpperCase[i] = c]
    ELSE c

RECURSIVE toLowerCase(_)
toLowerCase(s) ==
    IF s = <<>> THEN <<>>
    ELSE <<toLowerChar(Head(s))>> \o toLowerCase(Tail(s))

trim(s) ==
    IF \A i \in 1..Len(s) : isSpace(s[i])
    THEN <<>>
    ELSE LET first == CHOOSE i \in 1..Len(s) :
                        /\ ~isSpace(s[i])
                        /\ \A j \in 1..(i-1) : isSpace(s[j])
             last  == CHOOSE i \in 1..Len(s) :
                        /\ ~isSpace(s[i])
                        /\ \A j \in (i+1)..Len(s) : isSpace(s[j])
         IN  SubSeq(s, first, last)

\* whether sub occurs in s at position i (1-based)
matchesAt(s, sub, i) ==
    /\ i >= 1
    /\ i + Len(sub) - 1 <= Len(s)
    /\ SubSeq(s, i, i + Len(sub) - 1) = sub

includes(s, sub) == \E i \in 1..(Len(s) + 1) : matchesAt(s, sub, i)

startsWith(s, sub) == matchesAt(s, sub, 1)

\* the rest of s from position i on
from(s, i) == SubSeq(s, i, Len(s))

\* number of white-space characters s starts with
leadingSpaces(s) ==
    IF \A i \in 1..Len(s) : isSpace(s[i])
    THEN Len(s)
    ELSE (CHOOSE i \in 1..Len(s) :
            /\ ~isSpace(s[i])
            /\ \A j \in 1..(i-1) : isSpace(s[j])) - 1

Min(a, b) == IF a <= b THEN a ELSE b

-----------------------------------------------------------------------------
(* The workflow catalog, @/lib/workflows *)

WORKFLOWS == <<
    [id    |-> "employee-onboarding",
     name  |-> <<"E","m","p","l","o","y","e","e"," ","O","n","b","o","a","r","d","i","n","g">>,
     tags  |-> << <<"o","n","b","o","a","r","d","i","n","g">> >>,
     steps |-> << [id |-> "eo-1", title |-> "Prepare accounts"],
                  [id |-> "eo-2", title |-> "Welcome session"] >>],
    [id    |-> "incident-response",
     name  |-> <<"I","n","c","i","d","e","n","t"," ","R","e","s","p","o","n","s","e">>,
     tags  |-> << <<"i","n","c","i","d","e","n","t">> >>,
     steps |-> << [id |-> "ir-1", title |-> "Triage"],
                  [id |-> "ir-2", title |-> "Mitigate"],
                  [id |-> "ir-3", title |-> "Postmortem"] >>],
    [id    |-> "feature-launch",
     name  |-> <<"F","e","a","t","u","r","e"," ","L","a","u","n","c","h">>,
     tags  |-> << <<"l","a","u","n","c","h">> >>,
     steps |-> << [id |-> "fl-1", title |-> "Go/no-go"],
                  [id |-> "fl-2", title |-> "Rollout"] >>] >>

\* Array.prototype.find: the first of the workflows at the indices hits, or
\* undefined
findWorkflow(hits) ==
    IF hits = {} THEN None
    ELSE Some(WORKFLOWS[CHOOSE i \in hits : \A j \in hits : i <= j])

\* the catalog's lookup by free text: the first workflow one of whose tags
\* occurs in the query
getWorkflowByQuery(text) ==
    LET lower == toLowerCase(text)
    IN  findWorkflow({ i \in 1..Len(WORKFLOWS) :
            \E k \in 1..Len(WORKFLOWS[i].tags) : includes(lower, WORKFLOWS[i].tags[k]) })

findWorkflowFromText(text) ==
    LET lower  == toLowerCase(text)
        direct == findWorkflow({ i \in 1..Len(WORKFLOWS) :
                      includes(lower, toLowerCase(WORKFLOWS[i].name)) })
    IN  IF direct # None THEN direct ELSE getWorkflowByQuery(text)

-----------------------------------------------------------------------------
(* Records *)

createMessage(role, content) == [role |-> role, content |-> content]

\* the RunRecord a run is closed or exported into
RunRecord(run, now, notes, status) ==
    [workflow         |-> run.workflow,
     startedAt        |-> run.startedAt,
     completedAt      |-> now,
     completedStepIds |-> run.completedStepIds,
     notes            |-> notes,
     status           |-> status]

\* what computeAssistant returns: replies, nextRun and completedRun, with the
\* branch that returned (intent), the export branch's local record and
\* whether the call threw instead of returning
AssistantResult(replies, nextRun, completedRun, intent) ==
    [replies      |-> replies,
     nextRun      |-> nextRun,
     completedRun |-> completedRun,
     intent       |-> intent,
     record       |-> None,
     threw        |-> FALSE]

\* reading a field of steps[currentStepIndex] when there is no such step
TypeError(nextRun, intent) ==
    [replies      |-> <<>>,
     nextRun      |-> nextRun,
     completedRun |-> None,
     intent       |-> intent,
     record       |-> None,
     threw        |-> TRUE]

reply(replies, content) == Append(replies, createMessage("assistant", content))

\* run.workflow.steps[run.currentStepIndex] is defined
hasCurrentStep(run) ==
    /\ run.currentStepIndex >= 0
    /\ run.currentStepIndex < Len(run.workflow.steps)

\* run.workflow.steps[run.currentStepIndex]; JavaScript indexes from 0
currentStepOf(run) == run.workflow.steps[run.currentStepIndex + 1]

AutoClosedNote == <<"A","u","t","o","m","a","t","i","c","a","l","l","y"," ","c","l","o","s","e","d"," ","w","h","e","n"," ","a"," ","n","e","w"," ","w","o","r","k","f","l","o","w"," ","s","t","a","r","t","e","d",".">>

CancelledNote == <<"R","u","n"," ","c","a","n","c","e","l","l","e","d"," ","b","e","f","o","r","e"," ","c","o","m","p","l","e","t","i","o","n",".">>

-----------------------------------------------------------------------------
(* The conditions of computeAssistant's categories, on the lower-cased text *)

\* isGreeting that looks for the greeting words anywhere in the text
isGreetingByIncludes(lower) ==
    \/ includes(lower, <<"h","i">>)
    \/ includes(lower, <<"h","e","l","l","o">>)
    \/ includes(lower, <<"h","e","y">>)
    \/ includes(lower, <<"h","e","l","p">>)

isGreeting(lower) ==
    \/ lower = <<"h","i">>
    \/ lower = <<"h","e","l","l","o">>
    \/ lower = <<"h","e","y">>
    \/ includes(lower, <<"h","e","l","p">>)

isList(lower) ==
    \/ includes(lower, <<"l","i","s","t"," ","w","o","r","k","f","l","o","w","s">>)
    \/ lower = <<"l","i","s","t">>
    \/ includes(lower, <<"s","h","o","w"," ","w","o","r","k","f","l","o","w","s">>)
    \/ includes(lower, <<"c","a","t","a","l","o","g">>)

isDetails(lower) ==
    \/ includes(lower, <<"d","e","t","a","i","l","s">>)
    \/ includes(lower, <<"s","h","o","w">>)
    \/ includes(lower, <<"t","e","l","l"," ","m","e"," ","a","b","o","u","t">>)

isStart(lower) ==
    \/ includes(lower, <<"s","t","a","r","t"," ">>)
    \/ startsWith(lower, <<"r","u","n"," ">>)
    \/ startsWith(lower, <<"k","i","c","k">>)
    \/ includes(lower, <<"l","a","u","n","c","h">>)

isAdvance(lower) ==
    \/ includes(lower, <<"c","o","m","p","l","e","t","e">>)
    \/ startsWith(lower, <<"n","e","x","t">>)
    \/ includes(lower, <<"a","d","v","a","n","c","e">>)
    \/ includes(lower, <<"d","o","n","e">>)

isStatus(lower) ==
    \/ includes(lower, <<"s","t","a","t","u","s">>)
    \/ includes(lower, <<"p","r","o","g","r","e","s","s">>)
    \/ includes(lower, <<"w","h","e","r","e"," ","a","r","e"," ","w","e">>)
    \/ includes(lower, <<"h","o","w"," ","f","a","r">>)

isNote(lower) == includes(lower, <<"n","o","t","e">>)

isCancel(lower) ==
    \/ includes(lower, <<"c","a","n","c","e","l">>)
    \/ includes(lower, <<"s","t","o","p"," ","r","u","n">>)
    \/ includes(lower, <<"a","b","o","r","t">>)

isExport(lower) ==
    \/ includes(lower, <<"e","x","p","o","r","t">>)
    \/ includes(lower, <<"s","u","m","m","a","r","y">>)

isGoBack(lower) ==
    \/ includes(lower, <<"p","r","e","v","i","o","u","s"," ","s","t","e","p">>)
    \/ includes(lower, <<"g","o"," ","b","a","c","k">>)

-----------------------------------------------------------------------------
(* The note regular expressions.  Texts hold no line terminator, so "."    *)
(* matches every character and "$" is the end of the text.                 *)

\* \s*(.+)$ on r: \s* takes all the white space it can and gives one back
\* when nothing would be left for (.+)
spacesThenText(r) ==
    LET k == leadingSpaces(r)
    IN  IF k < Len(r) THEN Some(from(r, k + 1))
        ELSE IF Len(r) >= 1 THEN Some(from(r, Len(r)))
        ELSE None

\* [:\-]?\s*(.+)$ on the text after "note": the marker is taken when the rest
\* still matches, and is left to (.+) otherwise
markerThenText(r) ==
    IF r # <<>> /\ r[1] \in {":", "-"} /\ spacesThenText(Tail(r)) # None
    THEN spacesThenText(Tail(r))
    ELSE spacesThenText(r)

\* trimmed.match(/note[:\-]?\s*(.+)$/i): group 1 of the leftmost match
noteRegex(trimmed) ==
    LET lower == toLowerCase(trimmed)
        Hit(i) == /\ matchesAt(lower, <<"n","o","t","e">>, i)
                  /\ markerThenText(from(trimmed, i + 4)) # None
    IN  IF \E i \in 1..Len(trimmed) : Hit(i)
        THEN markerThenText(from(trimmed,
                 (CHOOSE i \in 1..Len(trimmed) :
                     Hit(i) /\ \A j \in 1..(i-1) : ~Hit(j)) + 4))
        ELSE None

\* trimmed.match(/add\s+note\s+(.*)$/i): group 1 of the leftmost match
addNoteRegex(trimmed) ==
    LET lower == toLowerCase(trimmed)
        gap(i) == leadingSpaces(from(lower, i + 3))
        tail(i) == from(trimmed, i + 3 + gap(i) + 4)
        Hit(i) == /\ matchesAt(lower, <<"a","d","d">>, i)
                  /\ gap(i) >= 1
                  /\ matchesAt(lower, <<"n","o","t","e">>, i + 3 + gap(i))
                  /\ leadingSpaces(tail(i)) >= 1
        at == CHOOSE i \in 1..Len(trimmed) : Hit(i) /\ \A j \in 1..(i-1) : ~Hit(j)
    IN  IF \E i \in 1..Len(trimmed) : Hit(i)
        THEN Some(from(tail(at), leadingSpaces(tail(at)) + 1))
        ELSE None

\* (match1 ?? match2)?.[1]?.trim()
extractNote(trimmed) ==
    LET first == noteRegex(trimmed)
        match == IF first # None THEN first ELSE addNoteRegex(trimmed)
    IN  IF match = None THEN None ELSE Some(trim(match[1]))

-----------------------------------------------------------------------------
(* The texts of a behaviour *)

\* the texts sent in a behaviour
Inputs == {
    <<"S","t","a","r","t"," ","E","m","p","l","o","y","e","e"," ","O","n","b","o","a","r","d","i","n","g">>,
    <<"S","t","a","r","t"," ","I","n","c","i","d","e","n","t"," ","R","e","s","p","o","n","s","e">>,
    <<"s","t","a","r","t"," ","t","h","e"," ","t","h","i","n","g">>,
    <<"S","h","o","w"," ","d","e","t","a","i","l","s"," ","f","o","r"," ","F","e","a","t","u","r","e"," ","L","a","u","n","c","h">>,
    <<"C","o","m","p","l","e","t","e"," ","t","h","e"," ","c","u","r","r","e","n","t"," ","s","t","e","p">>,
    <<"d","o","n","e",","," ","c","a","n","c","e","l">>,
    <<"S","h","o","w"," ","s","t","a","t","u","s">>,
    <<"s","h","o","w"," ","w","o","r","k","f","l","o","w"," ","s","t","a","t","u","s">>,
    <<"s","h","o","w"," ","m","e"," ","t","h","e"," ","w","o","r","k","f","l","o","w",","," ","t","h","e","n"," ","c","a","n","c","e","l">>,
    <<"a","d","d"," ","n","o","t","e",":"," ","w","a","i","t","i","n","g"," ","o","n"," ","l","e","g","a","l">>,
    <<"A","d","d"," ","n","o","t","e",":">>,
    <<"n","o","t","e"," ","-">>,
    <<"n","o","t","e"," ","c","a","n","c","e","l">>,
    <<"c","a","n","c","e","l">>,
    <<"E","x","p","o","r","t"," ","s","u","m","m","a","r","y">>,
    <<"g","o"," ","b","a","c","k">>,
    <<"h","i">>,
    <<"h","i"," ","t","h","e","r","e">>,
    <<" ","H","e","l","l","o"," ">>,
    <<"L","i","s","t"," ","w","o","r","k","f","l","o","w","s">>,
    <<"w","h","a","t","?">>,
    <<" "," ">>
}

\* what computeAssistant reads off its input text alone: the trimmed text,
\* the condition of each category on the lower-cased text, the workflow the
\* text resolves to and the note it carries
textFacts(text) ==
    LET trimmed == trim(text)
        lower   == toLowerCase(trimmed)
    IN  [text             |-> text,
         trimmed          |-> trimmed,
         isGreeting       |-> isGreeting(lower),
         isList           |-> isList(lower),
         isDetails        |-> isDetails(lower),
         mentionsWorkflow |-> includes(lower, <<"w","o","r","k","f","l","o","w">>),
         isStart          |-> isStart(lower),
         isAdvance        |-> isAdvance(lower),
         isStatus         |-> isStatus(lower),
         isNote           |-> isNote(lower),
         isCancel         |-> isCancel(lower),
         isExport         |-> isExport(lower),
         isGoBack         |-> isGoBack(lower),
         target           |-> findWorkflowFromText(trimmed),
         note             |-> extractNote(trimmed)]

\* textFacts of every text of a behaviour, as typed and as trimmed, computed once
Facts == { textFacts(t) : t \in Inputs \cup { trim(v) : v \in Inputs } }

factsOf(text) == CHOOSE f \in Facts : f.text = text

-----------------------------------------------------------------------------
(* computeAssistant, one operator per category *)

\* ensureActive that returns false without replying
ensureActiveSilent(replies, nextRun, intent) ==
    AssistantResult(replies, nextRun, None, intent)

\* ensureActive: the redirect it replies with when there is no run
ensureActive(replies, nextRun, intent) ==
    AssistantResult(reply(replies, "There isn't an active workflow run yet"),
                    nextRun, None, intent)


\* startIntent that resumes the run when its workflow is the one asked for
startIntentResumes(replies, f, nextRun, now) ==
    LET target == f.target
    IN  IF target = None
        THEN AssistantResult(reply(replies, "I couldn't find that workflow"),
                             nextRun, None, "start")
        ELSE IF nextRun # None /\ nextRun[1].workflow.id = target[1].id
        THEN AssistantResult(reply(replies, "Starting"), nextRun, None, "start")
        ELSE AssistantResult(reply(replies, "Starting"),
                             Some([workflow         |-> target[1],
                                   currentStepIndex |-> 0,
                                   completedStepIds |-> <<>>,
                                   startedAt        |-> now,
                                   notes            |-> <<>>]),
                             IF nextRun # None
                             THEN Some(RunRecord(nextRun[1], now,
                                                 Append(nextRun[1].notes, AutoClosedNote),
                                                 "cancelled"))
                             ELSE None,
                             "start")

\* startIntent that replaces a run of another workflow without closing it
startIntentDropsPrevious(replies, f, nextRun, now) ==
    LET target == f.target
    IN  IF target = None
        THEN AssistantResult(reply(replies, "I couldn't find that workflow"),
                             nextRun, None, "start")
        ELSE AssistantResult(reply(replies, "Starting"),
                             Some([workflow         |-> target[1],
                                   currentStepIndex |-> 0,
                                   completedStepIds |-> <<>>,
                                   startedAt        |-> now,
                                   notes            |-> <<>>]),
                             None, "start")

startIntent(replies, f, nextRun, now) ==
    LET target == f.target
    IN  IF target = None
        THEN AssistantResult(reply(replies, "I couldn't find that workflow"),
                             nextRun, None, "start")
        ELSE LET completedRun ==
                     IF nextRun # None /\ nextRun[1].workflow.id # target[1].id
                     THEN Some(RunRecord(nextRun[1], now,
                                         Append(nextRun[1].notes, AutoClosedNote),
                                         "cancelled"))
                     ELSE None
                 started == [workflow         |-> target[1],
                             currentStepIndex |-> 0,
                             completedStepIds |-> <<>>,
                             startedAt        |-> now,
                             notes            |-> <<>>]
             IN  AssistantResult(reply(replies, "Starting"),
                                 Some(started), completedRun, "start")


\* advanceIntent that closes the run one step late (>= totalSteps)
advanceIntentClosesLate(replies, nextRun, now) ==
    IF nextRun = None THEN ensureActive(replies, nextRun, "advance")
    ELSE IF ~hasCurrentStep(nextRun[1]) THEN TypeError(nextRun, "advance")
    ELSE
    LET run         == nextRun[1]
        totalSteps  == Len(run.workflow.steps)
        currentStep == currentStepOf(run)
        marked      == [run EXCEPT !.completedStepIds = Append(@, currentStep.id)]
    IN  IF \E i \in 1..Len(run.completedStepIds) : run.completedStepIds[i] = currentStep.id
        THEN AssistantResult(reply(replies, "Step is already marked complete"),
                             nextRun, None, "advance")
        ELSE IF run.currentStepIndex >= totalSteps
        THEN AssistantResult(reply(replies, "Nice work! Workflow is fully complete"),
                             None,
                             Some(RunRecord(marked, now, marked.notes, "completed")),
                             "advance")
        ELSE AssistantResult(reply(replies, "Marked complete. Up next"),
                             Some([marked EXCEPT !.currentStepIndex = @ + 1]),
                             None, "advance")

\* advanceIntent without the test for a step that is already complete
advanceIntentNoCheck(replies, nextRun, now) ==
    IF nextRun = None THEN ensureActive(replies, nextRun, "advance")
    ELSE IF ~hasCurrentStep(nextRun[1]) THEN TypeError(nextRun, "advance")
    ELSE
    LET run         == nextRun[1]
        totalSteps  == Len(run.workflow.steps)
        currentStep == currentStepOf(run)
        marked      == [run EXCEPT !.completedStepIds = Append(@, currentStep.id)]
    IN  IF run.currentStepIndex >= totalSteps - 1
        THEN AssistantResult(reply(replies, "Nice work! Workflow is fully complete"),
                             None,
                             Some(RunRecord(marked, now, marked.notes, "completed")),
                             "advance")
        ELSE AssistantResult(reply(replies, "Marked complete. Up next"),
                             Some([marked EXCEPT !.currentStepIndex = @ + 1]),
                             None, "advance")

\* advanceIntent that moves past a step that is already complete
advanceIntentSkipsDone(replies, nextRun, now) ==
    IF nextRun = None THEN ensureActive(replies, nextRun, "advance")
    ELSE IF ~hasCurrentStep(nextRun[1]) THEN TypeError(nextRun, "advance")
    ELSE
    LET run         == nextRun[1]
        totalSteps  == Len(run.workflow.steps)
        currentStep == currentStepOf(run)
        done        == \E i \in 1..Len(run.completedStepIds) :
                           run.completedStepIds[i] = currentStep.id
        marked      == IF done THEN run
                       ELSE [run EXCEPT !.completedStepIds = Append(@, currentStep.id)]
    IN  IF run.currentStepIndex >= totalSteps - 1
        THEN AssistantResult(reply(replies, "Nice work! Workflow is fully complete"),
                             None,
                             Some(RunRecord(marked, now, marked.notes, "completed")),
                             "advance")
        ELSE AssistantResult(reply(replies, "Marked complete. Up next"),
                             Some([marked EXCEPT !.currentStepIndex = @ + 1]),
                             None, "advance")

advanceIntent(replies, nextRun, now) ==
    IF nextRun = None THEN ensureActive(replies, nextRun, "advance")
    ELSE IF ~hasCurrentStep(nextRun[1]) THEN TypeError(nextRun, "advance")
    ELSE
    LET run         == nextRun[1]
        totalSteps  == Len(run.workflow.steps)
        currentStep == currentStepOf(run)
        marked      == [run EXCEPT !.completedStepIds = Append(@, currentStep.id)]
    IN  IF \E i \in 1..Len(run.completedStepIds) : run.completedStepIds[i] = currentStep.id
        THEN AssistantResult(reply(replies, "Step is already marked complete"),
                             nextRun, None, "advance")
        ELSE IF run.currentStepIndex >= totalSteps - 1
        THEN AssistantResult(reply(replies, "Nice work! Workflow is fully complete"),
                             None,
                             Some(RunRecord(marked, now, marked.notes, "completed")),
                             "advance")
        ELSE AssistantResult(reply(replies, "Marked complete. Up next"),
                             Some([marked EXCEPT !.currentStepIndex = @ + 1]),
                             None, "advance")

statusIntent(replies, nextRun) ==
    IF nextRun = None THEN ensureActive(replies, nextRun, "status")
    ELSE AssistantResult(reply(replies, "Status"), nextRun, None, "status")


\* noteIntent that puts the new note first
noteIntentPrepends(replies, f, nextRun) ==
    IF nextRun = None THEN ensureActive(replies, nextRun, "note")
    ELSE
    LET note == f.note
    IN  IF note # None /\ note[1] # <<>>
        THEN AssistantResult(reply(replies, "Captured note"),
                             Some([nextRun[1] EXCEPT !.notes = <<note[1]>> \o @]),
                             None, "note")
        ELSE AssistantResult(reply(replies, "To add a note, try"),
                             nextRun, None, "note")

noteIntent(replies, f, nextRun) ==
    IF nextRun = None THEN ensureActive(replies, nextRun, "note")
    ELSE
    LET note == f.note
    IN  IF note # None /\ note[1] # <<>>
        THEN AssistantResult(reply(replies, "Captured note"),
                             Some([nextRun[1] EXCEPT !.notes = Append(@, note[1])]),
                             None, "note")
        ELSE AssistantResult(reply(replies, "To add a note, try"),
                             nextRun, None, "note")


\* cancelIntent that records the run's notes without the cancellation note
cancelIntentNoNote(replies, nextRun, now) ==
    IF nextRun = None THEN ensureActive(replies, nextRun, "cancel")
    ELSE AssistantResult(reply(replies, "Stopped"),
                         None,
                         Some(RunRecord(nextRun[1], now, nextRun[1].notes, "cancelled")),
                         "cancel")

\* cancelIntent that drops the run without returning a record of it
cancelIntentSilently(replies, nextRun, now) ==
    IF nextRun = None THEN ensureActive(replies, nextRun, "cancel")
    ELSE AssistantResult(reply(replies, "Stopped"), None, None, "cancel")

cancelIntent(replies, nextRun, now) ==
    IF nextRun = None THEN ensureActive(replies, nextRun, "cancel")
    ELSE AssistantResult(reply(replies, "Stopped"),
                         None,
                         Some(RunRecord(nextRun[1], now,
                                        Append(nextRun[1].notes, CancelledNote),
                                        "cancelled")),
                         "cancel")


\* exportIntent that returns its snapshot as completedRun
exportIntentArchives(replies, nextRun, now) ==
    IF nextRun = None THEN ensureActive(replies, nextRun, "export")
    ELSE
    LET run    == nextRun[1]
        status == IF Len(run.completedStepIds) = Len(run.workflow.steps)
                  THEN "completed" ELSE "in-progress"
        record == RunRecord(run, now, run.notes, status)
    IN  [AssistantResult(reply(replies, "Run summary"), nextRun, Some(record), "export")
            EXCEPT !.record = Some(record)]

exportIntent(replies, nextRun, now) ==
    IF nextRun = None THEN ensureActive(replies, nextRun, "export")
    ELSE
    LET run    == nextRun[1]
        status == IF Len(run.completedStepIds) = Len(run.workflow.steps)
                  THEN "completed" ELSE "in-progress"
        record == RunRecord(run, now, run.notes, status)
    IN  [AssistantResult(reply(replies, "Run summary"), nextRun, None, "export")
            EXCEPT !.record = Some(record)]


\* goBackIntent without the test for the first step
goBackIntentNoFloor(replies, nextRun) ==
    IF nextRun = None THEN ensureActive(replies, nextRun, "go-back")
    ELSE AssistantResult(reply(replies, "Revisiting"),
                         Some([nextRun[1] EXCEPT !.currentStepIndex = @ - 1]),
                         None, "go-back")

\* goBackIntent that also takes the last id off completedStepIds
goBackIntentUncompletes(replies, nextRun) ==
    IF nextRun = None THEN ensureActive(replies, nextRun, "go-back")
    ELSE IF nextRun[1].currentStepIndex = 0
    THEN AssistantResult(reply(replies, "You're already at the first step"),
                         nextRun, None, "go-back")
    ELSE AssistantResult(reply(replies, "Revisiting"),
                         Some([nextRun[1] EXCEPT
                                 !.currentStepIndex = @ - 1,
                                 !.completedStepIds =
                                     SubSeq(@, 1, IF Len(@) = 0 THEN 0 ELSE Len(@) - 1)]),
                         None, "go-back")

goBackIntent(replies, nextRun) ==
    IF nextRun = None THEN ensureActive(replies, nextRun, "go-back")
    ELSE IF nextRun[1].currentStepIndex = 0
    THEN AssistantResult(reply(replies, "You're already at the first step"),
                         nextRun, None, "go-back")
    ELSE AssistantResult(reply(replies, "Revisiting"),
                         Some([nextRun[1] EXCEPT !.currentStepIndex = @ - 1]),
                         None, "go-back")

\* the categories after "details", which a details text without a match falls
\* through to with the replies it has collected
afterDetails(replies, f, nextRun, now) ==
    IF f.isStart THEN startIntent(replies, f, nextRun, now)
    ELSE IF f.isAdvance THEN advanceIntent(replies, nextRun, now)
    ELSE IF f.isStatus THEN statusIntent(replies, nextRun)
    ELSE IF f.isNote THEN noteIntent(replies, f, nextRun)
    ELSE IF f.isCancel THEN cancelIntent(replies, nextRun, now)
    ELSE IF f.isExport THEN exportIntent(replies, nextRun, now)
    ELSE IF f.isGoBack THEN goBackIntent(replies, nextRun)
    ELSE AssistantResult(reply(replies, "I'm not sure how to help"),
                         nextRun, None, "fallback")

\* detailsIntent that starts the workflow it describes
detailsIntentStarts(f, nextRun, now) ==
    LET target == f.target
    IN  IF target # None
        THEN AssistantResult(reply(<<>>, "Workflow details"),
                             Some([workflow         |-> target[1],
                                   currentStepIndex |-> 0,
                                   completedStepIds |-> <<>>,
                                   startedAt        |-> now,
                                   notes            |-> <<>>]),
                             None, "details")
        ELSE IF f.mentionsWorkflow
        THEN afterDetails(reply(<<>>, "I couldn't match that workflow"),
                          f, nextRun, now)
        ELSE afterDetails(<<>>, f, nextRun, now)

detailsIntent(f, nextRun, now) ==
    LET target == f.target
    IN  IF target # None
        THEN AssistantResult(reply(<<>>, "Workflow details"), nextRun, None, "details")
        ELSE IF f.mentionsWorkflow
        THEN afterDetails(reply(<<>>, "I couldn't match that workflow"),
                          f, nextRun, now)
        ELSE afterDetails(<<>>, f, nextRun, now)

computeAssistant(text, run, now) ==
    LET f       == factsOf(text)
        nextRun == run
    IN  IF f.trimmed = <<>>
        THEN AssistantResult(reply(<<>>, "I'll wait here"), nextRun, None, "empty")
        ELSE IF f.isGreeting
        THEN AssistantResult(reply(<<>>, "I'm your workflow copilot"), nextRun, None, "greeting")
        ELSE IF f.isList
        THEN AssistantResult(reply(<<>>, "Here are the available playbooks"), nextRun, None, "list")
        ELSE IF f.isDetails
        THEN detailsIntent(f, nextRun, now)
        ELSE afterDetails(<<>>, f, nextRun, now)

-----------------------------------------------------------------------------
(* The page *)

deriveQuickActions(run) ==
    IF run = None
    THEN <<"List workflows", "Start Employee Onboarding",
           "Start Incident Response", "Show details for Feature Launch">>
    ELSE IF ~hasCurrentStep(run[1]) THEN <<"TypeError">>
    ELSE <<"Complete " \o currentStepOf(run[1]).title, "Show status",
           "Add note: Blocker identified with current step", "Export summary">>

\* pushHistory without the slice
pushHistoryKeepsAll(completedRun, prev) == <<completedRun>> \o prev

\* [result.completedRun, ...prev].slice(0, 5)
pushHistory(completedRun, prev) ==
    LET all == <<completedRun>> \o prev
    IN  SubSeq(all, 1, Min(5, Len(all)))

\* whether the last command was a start that created a run
startedRun == result.intent = "start" /\ result.nextRun # None /\ factsOf(input).target # None

\* the row of commands of one intent that the command returning res ends, and
\* whether the command before that row started a run
nextStreak(res) ==
    IF res.intent = streak.intent
    THEN [streak EXCEPT !.count = @ + 1]
    ELSE [intent |-> res.intent, count |-> 1, afterStart |-> startedRun]

\* sendMessage once the text is known not to be blank: the call of
\* computeAssistant and the state updates that follow it; limit bounds the
\* number of commands of a behaviour
dispatch(text, limit) ==
    /\ clock < limit
    /\ LET now == clock + 1
           res == computeAssistant(text, activeRun, now)
       IN  /\ res.nextRun # None => Len(res.nextRun[1].notes) <= MaxNotes
           /\ clock' = now
           /\ input' = text
           /\ prevRun' = activeRun
           /\ result' = res
           /\ streak' = nextStreak(res)
           /\ closedRuns' = IF res.completedRun # None THEN closedRuns + 1 ELSE closedRuns
           /\ IF res.threw
              THEN UNCHANGED <<activeRun, runHistory, quickActions, messageCount>>
              ELSE /\ messageCount' = messageCount + 1 + Len(res.replies)
                   /\ activeRun' = res.nextRun
                   /\ quickActions' = deriveQuickActions(res.nextRun)
                   /\ runHistory' = IF res.completedRun # None
                                    THEN pushHistory(res.completedRun[1], runHistory)
                                    ELSE runHistory

sendMessageWithin(value, limit) ==
    LET text == factsOf(value).trimmed
    IN  IF text = <<>> THEN UNCHANGED vars
        ELSE dispatch(text, limit)

sendMessage(value) == sendMessageWithin(value, MaxClock)

\* a call of computeAssistant on the text as given, blank or not, by a caller
\* that keeps the run and the history as the page does
interpret(value) == dispatch(value, MaxClock)

Init ==
    /\ activeRun = None
    /\ runHistory = <<>>
    /\ quickActions = deriveQuickActions(None)
    /\ messageCount = 1
    /\ clock = 0
    /\ input = <<>>
    /\ prevRun = None
    /\ result = AssistantResult(<<>>, None, None, "none")
    /\ streak = [intent |-> "none", count |-> 0, afterStart |-> FALSE]
    /\ closedRuns = 0

Next == \E value \in Inputs : sendMessage(value)

Spec == Init /\ [][Next]_vars

\* computeAssistant called directly, so that a blank text reaches it
NextInterpret == \E value \in Inputs : interpret(value)

SpecInterpret == Init /\ [][NextInterpret]_vars

\* the commands that open and close runs, sent for longer
HistoryInputs == {
    <<"S","t","a","r","t"," ","E","m","p","l","o","y","e","e"," ","O","n","b","o","a","r","d","i","n","g">>,
    <<"S","t","a","r","t"," ","I","n","c","i","d","e","n","t"," ","R","e","s","p","o","n","s","e">>,
    <<"C","o","m","p","l","e","t","e"," ","t","h","e"," ","c","u","r","r","e","n","t"," ","s","t","e","p">>,
    <<"c","a","n","c","e","l">>,
    <<"E","x","p","o","r","t"," ","s","u","m","m","a","r","y">>
}

NextHistory == \E value \in HistoryInputs : sendMessageWithin(value, MaxHistoryClock)

SpecHistory == Init /\ [][NextHistory]_vars

-----------------------------------------------------------------------------
(* Properties.  Each is about the last command: input is its text, prevRun *)
(* the run it was computed against, result what computeAssistant returned. *)

\* the workflow the last command's text resolves to, if any
target == factsOf(input).target

\* C1: a start command that resolves to a catalog workflow W returns, whatever
\* the run before it, a run of W at step 0 with no completed step and no note.
C1_StartGivesFreshRun ==
    (result.intent = "start" /\ target # None) =>
        /\ result.nextRun # None
        /\ result.nextRun[1].workflow = target[1]
        /\ result.nextRun[1].currentStepIndex = 0
        /\ result.nextRun[1].completedStepIds = <<>>
        /\ result.nextRun[1].notes = <<>>

\* C1 witness: a start command on a run that had progress and a note
C1_Witness ==
    /\ result.intent = "start"
    /\ target # None
    /\ prevRun # None
    /\ prevRun[1].currentStepIndex > 0
    /\ prevRun[1].notes # <<>>
    /\ result.nextRun # None
    /\ result.nextRun[1].currentStepIndex = 0

\* C2: after a start, the k-th advance command in a row (k < N, N the number
\* of steps) returns no completedRun and moves currentStepIndex from k-1 to k;
\* the N-th returns a completedRun with status "completed" and N completed
\* step ids, and no nextRun; the run is not gone before that.
C2_CompleteAllStepsInOrder ==
    (streak.intent = "advance" /\ streak.afterStart) =>
        LET k == streak.count
        IN  IF prevRun # None
            THEN LET N == Len(prevRun[1].workflow.steps)
                 IN  /\ k <= N
                     /\ prevRun[1].currentStepIndex = k - 1
                     /\ k < N =>
                          /\ result.completedRun = None
                          /\ result.nextRun # None
                          /\ result.nextRun[1].currentStepIndex = k
                     /\ k = N =>
                          /\ result.completedRun # None
                          /\ result.completedRun[1].status = "completed"
                          /\ Len(result.completedRun[1].completedStepIds) = N
                          /\ result.nextRun = None
            ELSE /\ runHistory # <<>>
                 /\ runHistory[1].status = "completed"
                 /\ k > Len(runHistory[1].workflow.steps)
                 /\ result.completedRun = None

\* C2 witness: the third advance in a row after starting a three-step workflow
C2_Witness ==
    /\ streak.intent = "advance"
    /\ streak.afterStart
    /\ streak.count = 3
    /\ prevRun # None
    /\ Len(prevRun[1].workflow.steps) = 3
    /\ result.completedRun # None
    /\ result.nextRun = None

\* C3: a start command that resolves to workflow B while a run of another
\* workflow A is active returns a completedRun for A (status "cancelled", A's
\* startedAt and completedStepIds, A's notes then the automatic note) and a
\* nextRun for B at step 0.
C3_StartOtherClosesAndStarts ==
    (/\ result.intent = "start"
     /\ target # None
     /\ prevRun # None
     /\ prevRun[1].workflow.id # target[1].id) =>
        /\ result.completedRun # None
        /\ result.completedRun[1].workflow = prevRun[1].workflow
        /\ result.completedRun[1].status = "cancelled"
        /\ result.completedRun[1].startedAt = prevRun[1].startedAt
        /\ result.completedRun[1].completedStepIds = prevRun[1].completedStepIds
        /\ result.completedRun[1].notes =
               Append(prevRun[1].notes,
                      <<"A","u","t","o","m","a","t","i","c","a","l","l","y"," ","c","l","o","s","e","d"," ","w","h","e","n"," ","a"," ","n","e","w"," ","w","o","r","k","f","l","o","w"," ","s","t","a","r","t","e","d",".">>)
        /\ result.nextRun # None
        /\ result.nextRun[1].workflow = target[1]
        /\ result.nextRun[1].currentStepIndex = 0

\* C3 witness: another workflow is started over a run with progress and a note
C3_Witness ==
    /\ result.intent = "start"
    /\ target # None
    /\ prevRun # None
    /\ prevRun[1].workflow.id # target[1].id
    /\ prevRun[1].completedStepIds # <<>>
    /\ prevRun[1].notes # <<>>
    /\ result.completedRun # None
    /\ result.nextRun # None

\* C4: every start command that creates a run while another run exists returns
\* the previous run as completedRun, also when the workflow started is the one
\* already running.
C4_StartAlwaysClosesPrevious ==
    (result.intent = "start" /\ target # None /\ prevRun # None) =>
        /\ result.completedRun # None
        /\ result.completedRun[1].workflow = prevRun[1].workflow
        /\ result.completedRun[1].completedStepIds = prevRun[1].completedStepIds

\* C5: a cancel command on an active run returns no nextRun and a completedRun
\* with status "cancelled", the run's completedStepIds, and the run's notes
\* followed by "Run cancelled before completion.".
C5_CancelClosesRun ==
    (result.intent = "cancel" /\ prevRun # None) =>
        /\ result.nextRun = None
        /\ result.completedRun # None
        /\ result.completedRun[1].status = "cancelled"
        /\ result.completedRun[1].workflow = prevRun[1].workflow
        /\ result.completedRun[1].completedStepIds = prevRun[1].completedStepIds
        /\ result.completedRun[1].notes =
               Append(prevRun[1].notes, <<"R","u","n"," ","c","a","n","c","e","l","l","e","d"," ","b","e","f","o","r","e"," ","c","o","m","p","l","e","t","i","o","n",".">>)

\* C5 witness: a run past its first step, with a note, is cancelled
C5_Witness ==
    /\ result.intent = "cancel"
    /\ prevRun # None
    /\ prevRun[1].currentStepIndex > 0
    /\ prevRun[1].notes # <<>>
    /\ result.completedRun # None
    /\ activeRun = None

\* whether the id of the step run is at is in its completedStepIds
currentStepCompleted(run) ==
    /\ hasCurrentStep(run)
    /\ \E i \in 1..Len(run.completedStepIds) :
           run.completedStepIds[i] = currentStepOf(run).id

\* C6: an advance command on a run whose current step is already in
\* completedStepIds returns the run as it was and no completedRun.
C6_RecompleteIsNoOp ==
    (/\ result.intent = "advance"
     /\ prevRun # None
     /\ currentStepCompleted(prevRun[1])) =>
        /\ result.nextRun = prevRun
        /\ result.completedRun = None

\* C6 witness: an advance command on a step that was completed before
C6_Witness ==
    /\ result.intent = "advance"
    /\ ~result.threw
    /\ prevRun # None
    /\ currentStepCompleted(prevRun[1])
    /\ activeRun = prevRun

\* C7: an export command on an active run returns the run as it was, in every
\* field, and no completedRun.
C7_ExportLeavesRun ==
    (result.intent = "export" /\ prevRun # None) =>
        /\ result.nextRun = prevRun
        /\ result.completedRun = None

\* C7 witness: an export of a run with progress and a note
C7_Witness ==
    /\ result.intent = "export"
    /\ prevRun # None
    /\ prevRun[1].completedStepIds # <<>>
    /\ prevRun[1].notes # <<>>
    /\ result.record # None
    /\ activeRun = prevRun

\* C8: a go-back command on a run at step 0 leaves currentStepIndex at 0 and
\* completedStepIds and notes as they were, however often it is repeated.
C8_GoBackAtFirstStep ==
    (/\ result.intent = "go-back"
     /\ prevRun # None
     /\ prevRun[1].currentStepIndex = 0) =>
        /\ result.nextRun # None
        /\ result.nextRun[1].currentStepIndex = 0
        /\ result.nextRun[1].completedStepIds = prevRun[1].completedStepIds
        /\ result.nextRun[1].notes = prevRun[1].notes

\* C8 witness: the second go-back in a row on a run that never left step 0
C8_Witness ==
    /\ streak.intent = "go-back"
    /\ streak.count >= 2
    /\ prevRun # None
    /\ prevRun[1].currentStepIndex = 0
    /\ prevRun[1].completedStepIds = <<>>
    /\ prevRun[1].notes # <<>>
    /\ activeRun = prevRun

\* C9: a go-back command on a run past step 0 lowers currentStepIndex by 1 and
\* changes nothing else; the id of the step returned to is in completedStepIds.
C9_GoBackKeepsCompleted ==
    (/\ result.intent = "go-back"
     /\ prevRun # None
     /\ prevRun[1].currentStepIndex > 0) =>
        /\ result.nextRun =
               Some([prevRun[1] EXCEPT !.currentStepIndex = @ - 1])
        /\ result.completedRun = None
        /\ currentStepCompleted(result.nextRun[1])

\* C9 witness: a go-back from the second step, with a note on the run
C9_Witness ==
    /\ result.intent = "go-back"
    /\ prevRun # None
    /\ prevRun[1].currentStepIndex = 1
    /\ prevRun[1].notes # <<>>
    /\ activeRun # None
    /\ activeRun[1].currentStepIndex = 0
    /\ activeRun[1].completedStepIds # <<>>

\* C10: a note command whose extracted text is not empty returns the run with
\* that text added as the last note and nothing else changed, and no
\* completedRun; "add note: waiting on legal" adds "waiting on legal".
C10_NoteAppended ==
    (/\ result.intent = "note"
     /\ prevRun # None
     /\ factsOf(input).note # None
     /\ factsOf(input).note[1] # <<>>) =>
        /\ result.nextRun =
               Some([prevRun[1] EXCEPT !.notes = Append(@, factsOf(input).note[1])])
        /\ result.completedRun = None
        /\ input = <<"a","d","d"," ","n","o","t","e",":"," ","w","a","i","t","i","n","g"," ","o","n"," ","l","e","g","a","l">> =>
               result.nextRun[1].notes =
                   Append(prevRun[1].notes, <<"w","a","i","t","i","n","g"," ","o","n"," ","l","e","g","a","l">>)

\* C10 witness: "add note: waiting on legal" on a run that already has a
\* different note
C10_Witness ==
    /\ result.intent = "note"
    /\ input = <<"a","d","d"," ","n","o","t","e",":"," ","w","a","i","t","i","n","g"," ","o","n"," ","l","e","g","a","l">>
    /\ prevRun # None
    /\ prevRun[1].notes # <<>>
    /\ prevRun[1].notes[1] # <<"w","a","i","t","i","n","g"," ","o","n"," ","l","e","g","a","l">>
    /\ activeRun # None
    /\ Len(activeRun[1].notes) = Len(prevRun[1].notes) + 1

\* the note commands of Inputs that carry a marker and no text after it
MarkerOnlyNotes == { <<"A","d","d"," ","n","o","t","e",":">>, <<"n","o","t","e"," ","-">> }

\* C11: with an active run, a note command with a marker and no text after it
\* adds nothing to notes and is answered with the syntax prompt.
C11_MarkerOnlyNoteAddsNothing ==
    (input \in MarkerOnlyNotes /\ result.intent = "note" /\ prevRun # None) =>
        /\ result.nextRun # None
        /\ result.nextRun[1].notes = prevRun[1].notes
        /\ result.replies = <<createMessage("assistant", "To add a note, try")>>

\* the intents that need an active run
NeedsRun == {"advance", "status", "note", "cancel", "export", "go-back"}

\* C12: with no active run, a command executed as advance, status, note,
\* cancel, export or go-back returns no nextRun and no completedRun, and its
\* replies contain the "There isn't an active workflow run yet" redirect.
C12_NoRunRedirect ==
    (result.intent \in NeedsRun /\ prevRun = None) =>
        /\ result.nextRun = None
        /\ result.completedRun = None
        /\ \E i \in 1..Len(result.replies) :
               result.replies[i] =
                   createMessage("assistant", "There isn't an active workflow run yet")

\* C12 witness: "Show status" with no run is answered by the redirect alone
C12_Witness ==
    /\ input = <<"S","h","o","w"," ","s","t","a","t","u","s">>
    /\ result.intent = "status"
    /\ prevRun = None
    /\ activeRun = None
    /\ Len(result.replies) = 1
    /\ result.replies[1].content = "There isn't an active workflow run yet"

\* C13: every call of computeAssistant returns exactly one reply.
C13_ExactlyOneReply ==
    result.intent # "none" => Len(result.replies) = 1

\* whether the last command's text meets the details condition, or the start
\* condition, after the greeting and list conditions failed
classifiedDetailsOrStart ==
    /\ result.intent # "none"
    /\ ~factsOf(input).isGreeting
    /\ ~factsOf(input).isList
    /\ factsOf(input).isDetails \/ factsOf(input).isStart

\* C14: a command classified as details or start whose text matches no catalog
\* workflow is answered with a reply and leaves the run as it was, with no
\* completedRun, whatever else the text contains.
C14_NoMatchLeavesRun ==
    (classifiedDetailsOrStart /\ target = None) =>
        /\ result.replies # <<>>
        /\ result.nextRun = prevRun
        /\ result.completedRun = None

\* the branches of computeAssistant that only reply
ReadOnlyIntents == {"empty", "greeting", "list", "details", "status", "fallback"}

\* C15: a command that executes the empty, greeting, list, details (with a
\* workflow matched), status or fallback branch returns the run it was given,
\* or none if there was none, and no completedRun.
C15_ReadOnlyBranches ==
    result.intent \in ReadOnlyIntents =>
        /\ result.nextRun = prevRun
        /\ result.completedRun = None
        /\ activeRun = prevRun

\* C15 witness: a blank text reaches the empty branch with a run in progress
C15_Witness ==
    /\ result.intent = "empty"
    /\ prevRun # None
    /\ prevRun[1].completedStepIds # <<>>
    /\ prevRun[1].notes # <<>>
    /\ activeRun = prevRun

\* C16: the run history never holds more than 5 records; a call that returns a
\* completedRun puts exactly that record at the head, moves the others down by
\* one and drops what is beyond 5; any other call, an export among them,
\* leaves the history as it was; no record has status "in-progress".
C16_HistoryBounded ==
    [][ /\ Len(runHistory') <= 5
        /\ \A i \in 1..Len(runHistory') : runHistory'[i].status # "in-progress"
        /\ result'.completedRun = None => runHistory' = runHistory
        /\ result'.intent = "export" => runHistory' = runHistory
        /\ result'.completedRun # None =>
             /\ runHistory'[1] = result'.completedRun[1]
             /\ Len(runHistory') = Min(5, Len(runHistory) + 1)
             /\ \A i \in 2..Len(runHistory') : runHistory'[i] = runHistory[i - 1]
             /\ closedRuns' = closedRuns + 1
             /\ \A i \in 2..Len(runHistory') :
                    runHistory'[i].completedAt < runHistory'[1].completedAt
      ]_vars

\* C16 witness: a sixth run is closed and the oldest record is dropped
C16_Witness ==
    /\ closedRuns = 6
    /\ Len(runHistory) = 5
    /\ result.completedRun # None
    /\ runHistory[1] = result.completedRun[1]
    /\ runHistory[5].completedAt > 2

GreetingWords == { <<"h","i">>, <<"h","e","l","l","o">>, <<"h","e","y">> }

\* whether the word w stands in s between white space or the ends of s
hasToken(s, w) ==
    \E i \in 1..Len(s) :
        /\ matchesAt(s, w, i)
        /\ i = 1 \/ isSpace(s[i - 1])
        /\ i + Len(w) > Len(s) \/ isSpace(s[i + Len(w)])

\* the commands that are a greeting word and nothing else
GreetingOnlyTexts ==
    { f.trimmed : f \in { g \in Facts : toLowerCase(g.trimmed) \in GreetingWords } }

\* the commands that hold a greeting word as a token among other words
GreetingTokenTexts ==
    { f.trimmed : f \in { g \in Facts :
        /\ toLowerCase(g.trimmed) \notin GreetingWords
        /\ \E w \in GreetingWords : hasToken(toLowerCase(g.trimmed), w) } }

\* the reply of the greeting branch, with the run left as it was
answeredAsGreeting ==
    /\ result.intent = "greeting"
    /\ result.replies = <<createMessage("assistant", "I'm your workflow copilot")>>
    /\ result.nextRun = prevRun
    /\ result.completedRun = None

\* C17 as stated: a command that holds "hi", "hello" or "hey" as a token among
\* other words is answered as a greeting.
C17_GreetingTokenAmongWords ==
    (result.intent # "none" /\ input \in GreetingTokenTexts) => answeredAsGreeting

\* C17 as amended: a command that is "hi", "hello" or "hey" and nothing else
\* (trimmed, in any case) is answered as a greeting with the run unchanged; one
\* that holds such a word among other words is not, unless it contains "help".
C17_GreetingWordAlone ==
    result.intent # "none" =>
        /\ input \in GreetingOnlyTexts => answeredAsGreeting
        /\ (input \in GreetingTokenTexts /\ result.intent = "greeting") =>
               includes(toLowerCase(input), <<"h","e","l","p">>)

\* C17 witness: "Hello", typed with spaces around it, on a run with progress
C17_Witness ==
    /\ input = <<"H","e","l","l","o">>
    /\ result.intent = "greeting"
    /\ prevRun # None
    /\ prevRun[1].completedStepIds # <<>>
    /\ activeRun = prevRun

\* C18: every active run is at a step of its workflow,
\* 0 <= currentStepIndex < steps.length, and no command has failed on a step
\* that is not there.
C18_StepIndexInRange ==
    /\ activeRun # None => hasCurrentStep(activeRun[1])
    /\ result.nextRun # None => hasCurrentStep(result.nextRun[1])
    /\ ~result.threw
    /\ quickActions # <<"TypeError">>

\* C18 witness: a run advanced to the last step of the three-step workflow
C18_Witness ==
    /\ activeRun # None
    /\ activeRun[1].currentStepIndex = Len(activeRun[1].workflow.steps) - 1
    /\ activeRun[1].currentStepIndex = 2
    /\ result.intent = "advance"
    /\ closedRuns = 0

\* whether the sequence s holds no element twice
noDuplicates(s) == \A i, j \in 1..Len(s) : s[i] = s[j] => i = j

\* whether the last command went on with the run it was given
sameRun ==
    /\ prevRun # None
    /\ result.nextRun # None
    /\ ~(result.intent = "start" /\ target # None)

\* C19: within one run, completedStepIds never holds an id twice, and each
\* command leaves it as it was or adds one id at its end.
C19_CompletedStepIdsGrow ==
    /\ activeRun # None => noDuplicates(activeRun[1].completedStepIds)
    /\ result.completedRun # None =>
           noDuplicates(result.completedRun[1].completedStepIds)
    /\ sameRun =>
           LET old == prevRun[1].completedStepIds
               new == result.nextRun[1].completedStepIds
           IN  \/ new = old
               \/ /\ Len(new) = Len(old) + 1
                  /\ SubSeq(new, 1, Len(old)) = old
    /\ (result.intent = "advance" /\ result.completedRun # None) =>
           /\ Len(result.completedRun[1].completedStepIds) =
                  Len(prevRun[1].completedStepIds) + 1
           /\ SubSeq(result.completedRun[1].completedStepIds, 1,
                     Len(prevRun[1].completedStepIds)) = prevRun[1].completedStepIds

\* C19 witness: a complete command right after a go-back to a completed step
C19_Witness ==
    /\ result.intent = "advance"
    /\ streak.count = 1
    /\ sameRun
    /\ prevRun[1].currentStepIndex < Len(prevRun[1].completedStepIds)
    /\ activeRun[1].completedStepIds = prevRun[1].completedStepIds
    /\ Len(activeRun[1].completedStepIds) >= 1

\* whether the record rec closes the run that the last command was given
closesPrevRun(rec) ==
    /\ prevRun # None
    /\ rec.workflow = prevRun[1].workflow
    /\ rec.startedAt = prevRun[1].startedAt
    /\ rec.completedAt = clock

\* C20: a closed run is returned only by a call that was given an active run,
\* with status "completed" or "cancelled"; a closure by the complete or the
\* cancel intent returns no next run; a call that turns an active run into
\* none returns the closed record of that run.
C20_ClosedRunTerminal ==
    /\ result.completedRun # None =>
           /\ closesPrevRun(result.completedRun[1])
           /\ result.completedRun[1].status \in {"completed", "cancelled"}
           /\ result.intent \in {"advance", "cancel"} => result.nextRun = None
    /\ (prevRun # None /\ result.nextRun = None) =>
           /\ result.completedRun # None
           /\ closesPrevRun(result.completedRun[1])
    /\ \A i \in 1..Len(runHistory) : runHistory[i].status # "in-progress"

\* C20 witness: the last step of a run completed, the run closed as
\* "completed" and no run left
C20_Witness ==
    /\ result.intent = "advance"
    /\ prevRun # None
    /\ result.completedRun # None
    /\ result.completedRun[1].status = "completed"
    /\ activeRun = None
    /\ runHistory # <<>>
    /\ runHistory[1] = result.completedRun[1]

\* whether the details category answers the text: a workflow is matched, or
\* none is and the text holds "workflow" (the not-found hint)
detailsAnswers(f) == f.isDetails /\ (f.target # None \/ f.mentionsWorkflow)

\* the earliest category, in the fixed order, that the text matches
firstCategory(f) ==
    IF f.isGreeting THEN "greeting"
    ELSE IF f.isList THEN "list"
    ELSE IF detailsAnswers(f) THEN "details"
    ELSE IF f.isStart THEN "start"
    ELSE IF f.isAdvance THEN "advance"
    ELSE IF f.isStatus THEN "status"
    ELSE IF f.isNote THEN "note"
    ELSE IF f.isCancel THEN "cancel"
    ELSE IF f.isExport THEN "export"
    ELSE IF f.isGoBack THEN "go-back"
    ELSE "fallback"

\* the number of categories whose keywords the text holds
categoriesMatched(f) ==
    Cardinality({ c \in {"greeting", "list", "details", "start", "advance", "status",
                         "note", "cancel", "export", "go-back"} :
                    \/ c = "greeting" /\ f.isGreeting
                    \/ c = "list" /\ f.isList
                    \/ c = "details" /\ detailsAnswers(f)
                    \/ c = "start" /\ f.isStart
                    \/ c = "advance" /\ f.isAdvance
                    \/ c = "status" /\ f.isStatus
                    \/ c = "note" /\ f.isNote
                    \/ c = "cancel" /\ f.isCancel
                    \/ c = "export" /\ f.isExport
                    \/ c = "go-back" /\ f.isGoBack })

\* what the category c alone returns for the text of f, the run and the time
transitionOf(c, f, run, now) ==
    IF c = "start" THEN startIntent(<<>>, f, run, now)
    ELSE IF c = "advance" THEN advanceIntent(<<>>, run, now)
    ELSE IF c = "note" THEN noteIntent(<<>>, f, run)
    ELSE IF c = "cancel" THEN cancelIntent(<<>>, run, now)
    ELSE IF c = "go-back" THEN goBackIntent(<<>>, run)
    ELSE AssistantResult(<<>>, run, None, c)

\* C21: a command whose text matches more than one category changes the state
\* as the earliest of them in the fixed order does, and not as a later one:
\* "done, cancel" advances and "note cancel" captures a note, neither cancels.
C21_FirstMatchWins ==
    (result.intent # "none" /\ categoriesMatched(factsOf(input)) > 1) =>
        LET f     == factsOf(input)
            first == transitionOf(firstCategory(f), f, prevRun, clock)
        IN  /\ result.nextRun = first.nextRun
            /\ result.completedRun = first.completedRun

\* the same, for the texts that the details category does not answer
FirstMatchWinsPastDetails ==
    (result.intent # "none" /\ categoriesMatched(factsOf(input)) > 1
        /\ ~detailsAnswers(factsOf(input))) =>
        LET f     == factsOf(input)
            first == transitionOf(firstCategory(f), f, prevRun, clock)
        IN  /\ result.nextRun = first.nextRun
            /\ result.completedRun = first.completedRun
            /\ result.intent = firstCategory(f)
            /\ (prevRun # None /\ input \in {<<"d","o","n","e",","," ","c","a","n","c","e","l">>, <<"n","o","t","e"," ","c","a","n","c","e","l">>}) =>
                   /\ result.intent \in {"advance", "note"}
                   /\ result.completedRun # None =>
                          result.completedRun[1].status = "completed"

\* the ids of the first k steps of the workflow, in workflow order
firstStepIds(workflow, k) == [i \in 1..k |-> workflow.steps[i].id]

\* C22: in every active run of a workflow with N steps, completedStepIds is the
\* ids of the first k steps in workflow order with currentStepIndex <= k < N,
\* and every record closed as "completed" lists all N ids in workflow order.
C22_CompletedIsPrefix ==
    /\ activeRun # None =>
           LET run == activeRun[1]
               k   == Len(run.completedStepIds)
           IN  /\ run.currentStepIndex <= k
               /\ k < Len(run.workflow.steps)
               /\ run.completedStepIds = firstStepIds(run.workflow, k)
    /\ \A i \in 1..Len(runHistory) :
           runHistory[i].status = "completed" =>
               runHistory[i].completedStepIds =
                   firstStepIds(runHistory[i].workflow, Len(runHistory[i].workflow.steps))
    /\ (result.completedRun # None /\ result.completedRun[1].status = "completed") =>
           result.completedRun[1].completedStepIds =
               firstStepIds(result.completedRun[1].workflow,
                            Len(result.completedRun[1].workflow.steps))

\* C22 witness: a run of the three-step workflow gone back to its first step
\* with two steps completed
C22_Witness ==
    /\ activeRun # None
    /\ Len(activeRun[1].workflow.steps) = 3
    /\ activeRun[1].currentStepIndex = 0
    /\ Len(activeRun[1].completedStepIds) = 2
    /\ result.intent = "go-back"

\* C23: from a run whose current step is already in completedStepIds (where a
\* go-back command has put it), no command raises currentStepIndex or grows
\* completedStepIds; the run is never closed as "completed" and ends only by
\* the cancel intent or by a start command.
C23_GoneBackRunNeverCompletes ==
    /\ (activeRun # None /\ currentStepCompleted(activeRun[1])) =>
           \/ result.intent = "go-back"
           \/ prevRun # None /\ currentStepCompleted(prevRun[1]) /\ activeRun = result.nextRun
                 /\ sameRun
    /\ (prevRun # None /\ currentStepCompleted(prevRun[1])) =>
           /\ sameRun =>
                  /\ result.nextRun[1].currentStepIndex <= prevRun[1].currentStepIndex
                  /\ result.nextRun[1].completedStepIds = prevRun[1].completedStepIds
                  /\ currentStepCompleted(result.nextRun[1])
           /\ result.completedRun # None =>
                  /\ result.completedRun[1].status = "cancelled"
                  /\ result.intent \in {"cancel", "start"}
           /\ result.nextRun = None => result.intent = "cancel"
           /\ (result.nextRun # None /\ ~sameRun) => result.intent = "start"

\* C23 witness: two complete commands in a row answered "already marked
\* complete" on a run that has gone back
C23_Witness ==
    /\ prevRun # None
    /\ currentStepCompleted(prevRun[1])
    /\ result.intent = "advance"
    /\ streak.count = 2
    /\ activeRun = prevRun

\* C24: the record that the export intent builds always has status
\* "in-progress": no active run has as many completed ids as its workflow has
\* steps, because the call that completes the last step closes the run.
C24_ExportInProgress ==
    /\ activeRun # None =>
           Len(activeRun[1].completedStepIds) # Len(activeRun[1].workflow.steps)
    /\ result.record # None => result.record[1].status = "in-progress"
    /\ (result.intent = "export" /\ prevRun # None) =>
           /\ result.record # None
           /\ result.record[1].completedStepIds = prevRun[1].completedStepIds

\* C24 witness: an export on a run with all steps completed but the last
C24_Witness ==
    /\ result.intent = "export"
    /\ result.record # None
    /\ Len(result.record[1].completedStepIds) = Len(result.record[1].workflow.steps) - 1
    /\ result.record[1].status = "in-progress"
    /\ activeRun = prevRun

=============================================================================
